---- MODULE Spec2Model ----
(***************************************************************************)
(* Model of hw1/FSMDesign/FSM.cpp: an interactive finite-state-machine     *)
(* walker.  main() reads the number of states and transitions, reads the   *)
(* transition table into two parallel arrays (transitions_head = from,     *)
(* transitions_tail = to), reads a starting state and then loops forever:  *)
(* print current state, read a requested next state, scan the table.       *)
(*                                                                         *)
(* pc is the position of main():                                           *)
(*   "counts"  before line 9  (cin >> n_states >> n_transitions)           *)
(*   "states"  at the for loop of lines 16-19                              *)
(*   "load"    at the head of the for loop of lines 21-25                  *)
(*   "loop"    at line 35, the top of while (true)                         *)
(*   "read"    at line 38, after the current-state line was printed        *)
(*   "scan"    at the head of the for loop of lines 41-54                  *)
(* Arrays are 0-based functions, as in the source.  A variable that the    *)
(* program has not assigned yet is never read by it; it holds 0 (or the    *)
(* empty function) in the model until its first assignment.                *)
(*                                                                         *)
(* console is the last text written to cout, with the number printed in it *)
(* (0 when the text carries none).  in_pair and in_start are the values    *)
(* most recently extracted from cin by line 24 and by line 29.             *)
(***************************************************************************)
EXTENDS Integers, FiniteSets, Sequences, TLC

VARIABLES pc, n_states, n_transitions, states, transitions_head,
          transitions_tail, current_state, next_state, i, outcome,
          console, in_pair, in_start

vars == <<pc, n_states, n_transitions, states, transitions_head,
          transitions_tail, current_state, next_state, i, outcome,
          console, in_pair, in_start>>

(* ---- bounds of the model ---- *)
MaxStates == 1
MaxTransitions == 2
MaxVal == 1

(* the integers the console may deliver for a state identifier; with       *)
(* n_states <= MaxStates the value MaxVal can lie outside [0, n_states)    *)
Vals == 0..MaxVal

(* the messages a request can print (lines 45 and 50), "none" for nothing *)
Outcomes == {"none", "illegal", "success"}

EmptyArr == [j \in {} |-> 0]

(* a text written to cout and the number printed with it *)
Line(text, num) == [text |-> text, num |-> num]

(* the string literals of lines 8, 23, 28, 35, 38, 45 and 50 *)
CountsPrompt == "number of state and transitions: "
TransitionPrompt == "transition number "
StartPrompt == "starting state: "
CurrentLine == "current state: "
NextPrompt == "next state: "
IllegalMsg == "illegal transition, not defined in transitions table"
SuccessMsg == "transition successful"

(* a[idx] = v on an array whose cells 0..idx-1 have been written *)
Store(a, idx, v) == [j \in 0..idx |-> IF j = idx THEN v ELSE a[j]]

Init ==
    /\ pc = "counts"
    /\ n_states = 0
    /\ n_transitions = 0
    /\ states = EmptyArr
    /\ transitions_head = EmptyArr
    /\ transitions_tail = EmptyArr
    /\ current_state = 0
    /\ next_state = 0
    /\ i = 0
    /\ outcome = "none"
    /\ console = Line("", 0)
    /\ in_pair = <<0, 0>>
    /\ in_start = 0

(* lines 7-13: prompt, cin >> n_states >> n_transitions, declare arrays *)
ReadCounts ==
    /\ pc = "counts"
    /\ \E ns \in 0..MaxStates, nt \in 0..MaxTransitions :
          /\ n_states' = ns
          /\ n_transitions' = nt
    /\ pc' = "states"
    /\ console' = Line(CountsPrompt, 0)
    /\ UNCHANGED <<states, transitions_head, transitions_tail,
                   current_state, next_state, i, outcome,
                   in_pair, in_start>>

(* lines 16-19: states[i] = i for every i < n_states *)
FillStates ==
    /\ pc = "states"
    /\ states' = [j \in 0..(n_states - 1) |-> j]
    /\ i' = 0
    /\ pc' = "load"
    /\ UNCHANGED <<n_states, n_transitions, transitions_head,
                   transitions_tail, current_state, next_state, outcome,
                   console, in_pair, in_start>>

(* lines 21-25 altered: line 23 prints i, the prompts are numbered from 0 *)
LoadTransition_ZeroBased ==
    /\ pc = "load"
    /\ i < n_transitions
    /\ \E from \in Vals, to \in Vals :
          /\ transitions_head' = Store(transitions_head, i, from)
          /\ transitions_tail' = Store(transitions_tail, i, to)
          /\ in_pair' = <<from, to>>
    /\ i' = i + 1
    /\ console' = Line(TransitionPrompt, i)
    /\ UNCHANGED <<pc, n_states, n_transitions, states, current_state,
                   next_state, outcome, in_start>>

(* lines 21-25 altered: line 24 extracts into tail first, then into head *)
LoadTransition_Swapped ==
    /\ pc = "load"
    /\ i < n_transitions
    /\ \E from \in Vals, to \in Vals :
          /\ transitions_head' = Store(transitions_head, i, to)
          /\ transitions_tail' = Store(transitions_tail, i, from)
          /\ in_pair' = <<from, to>>
    /\ i' = i + 1
    /\ console' = Line(TransitionPrompt, i + 1)
    /\ UNCHANGED <<pc, n_states, n_transitions, states, current_state,
                   next_state, outcome, in_start>>

(* lines 21-25: one iteration of the load loop *)
LoadTransition ==
    /\ pc = "load"
    /\ i < n_transitions
    /\ \E from \in Vals, to \in Vals :
          /\ transitions_head' = Store(transitions_head, i, from)
          /\ transitions_tail' = Store(transitions_tail, i, to)
          /\ in_pair' = <<from, to>>
    /\ i' = i + 1
    /\ console' = Line(TransitionPrompt, i + 1)
    /\ UNCHANGED <<pc, n_states, n_transitions, states, current_state,
                   next_state, outcome,
                   in_start>>

(* lines 21, 27-29: the load loop exits, cin >> current_state *)
ReadStart ==
    /\ pc = "load"
    /\ ~(i < n_transitions)
    /\ \E s \in Vals : current_state' = s /\ in_start' = s
    /\ pc' = "loop"
    /\ console' = Line(StartPrompt, 0)
    /\ UNCHANGED <<n_states, n_transitions, states, transitions_head,
                   transitions_tail, next_state, i, outcome,
                   in_pair>>

(* line 35: cout << "current state: " << current_state *)
PrintCurrent ==
    /\ pc = "loop"
    /\ pc' = "read"
    /\ console' = Line(CurrentLine, current_state)
    /\ UNCHANGED <<n_states, n_transitions, states, transitions_head,
                   transitions_tail, current_state, next_state, i, outcome,
                   in_pair, in_start>>

(* lines 37-41: prompt, cin >> next_state, the scan starts at i = 0 *)
ReadNext ==
    /\ pc = "read"
    /\ \E t \in Vals : next_state' = t
    /\ i' = 0
    /\ outcome' = "none"
    /\ pc' = "scan"
    /\ console' = Line(NextPrompt, 0)
    /\ UNCHANGED <<n_states, n_transitions, states, transitions_head,
                   transitions_tail, current_state,
                   in_pair, in_start>>

(* line 43 altered: a mismatch is reported only at the last entry *)
IllegalCond_LastOnly ==
    /\ transitions_head[i] = current_state
    /\ transitions_tail[i] # next_state
    /\ i = n_transitions - 1

(* line 43: the condition of the first branch *)
IllegalCond ==
    transitions_head[i] = current_state /\ transitions_tail[i] # next_state

(* line 48 altered: the from of the entry is not compared *)
SuccessCond_TailOnly ==
    transitions_tail[i] = next_state

(* line 48: the condition of the second branch *)
SuccessCond ==
    transitions_head[i] = current_state /\ transitions_tail[i] = next_state

(* lines 43-47 altered: the illegal branch also assigns current_state *)
ScanIllegal_Moves ==
    /\ pc = "scan"
    /\ i < n_transitions
    /\ IllegalCond
    /\ outcome' = "illegal"
    /\ current_state' = next_state
    /\ pc' = "loop"
    /\ console' = Line(IllegalMsg, 0)
    /\ UNCHANGED <<n_states, n_transitions, states, transitions_head,
                   transitions_tail, next_state, i,
                   in_pair, in_start>>

(* lines 43-47 altered: the break of line 46 is missing, the scan goes on *)
ScanIllegal_NoBreak ==
    /\ pc = "scan"
    /\ i < n_transitions
    /\ IllegalCond
    /\ outcome' = "illegal"
    /\ i' = i + 1
    /\ console' = Line(IllegalMsg, 0)
    /\ UNCHANGED <<pc, n_states, n_transitions, states, transitions_head,
                   transitions_tail, current_state, next_state,
                   in_pair, in_start>>

(* lines 43-47: print the illegal-transition message and break *)
ScanIllegal ==
    /\ pc = "scan"
    /\ i < n_transitions
    /\ IllegalCond
    /\ outcome' = "illegal"
    /\ pc' = "loop"
    /\ console' = Line(IllegalMsg, 0)
    /\ UNCHANGED <<n_states, n_transitions, states, transitions_head,
                   transitions_tail, current_state, next_state, i,
                   in_pair, in_start>>

(* lines 48-53 altered: line 51 assigns the index, not the request *)
ScanSuccess_SetsIndex ==
    /\ pc = "scan"
    /\ i < n_transitions
    /\ ~IllegalCond
    /\ SuccessCond
    /\ outcome' = "success"
    /\ current_state' = i
    /\ pc' = "loop"
    /\ console' = Line(SuccessMsg, 0)
    /\ UNCHANGED <<n_states, n_transitions, states, transitions_head,
                   transitions_tail, next_state, i,
                   in_pair, in_start>>

(* lines 48-53 altered: the success branch also overwrites the entry's from *)
ScanSuccess_WritesTable ==
    /\ pc = "scan"
    /\ i < n_transitions
    /\ ~IllegalCond
    /\ SuccessCond
    /\ outcome' = "success"
    /\ current_state' = next_state
    /\ transitions_head' = [transitions_head EXCEPT ![i] = next_state]
    /\ pc' = "loop"
    /\ console' = Line(SuccessMsg, 0)
    /\ UNCHANGED <<n_states, n_transitions, states, transitions_tail,
                   next_state, i,
                   in_pair, in_start>>

(* lines 48-53 altered: the break of line 52 is missing, the scan goes on *)
ScanSuccess_NoBreak ==
    /\ pc = "scan"
    /\ i < n_transitions
    /\ ~IllegalCond
    /\ SuccessCond
    /\ outcome' = "success"
    /\ current_state' = next_state
    /\ i' = i + 1
    /\ console' = Line(SuccessMsg, 0)
    /\ UNCHANGED <<pc, n_states, n_transitions, states, transitions_head,
                   transitions_tail, next_state, in_pair, in_start>>

(* lines 48-53: print success, current_state = next_state, break *)
ScanSuccess ==
    /\ pc = "scan"
    /\ i < n_transitions
    /\ ~IllegalCond
    /\ SuccessCond
    /\ outcome' = "success"
    /\ current_state' = next_state
    /\ pc' = "loop"
    /\ console' = Line(SuccessMsg, 0)
    /\ UNCHANGED <<n_states, n_transitions, states, transitions_head,
                   transitions_tail, next_state, i,
                   in_pair, in_start>>

(* lines 41-54 altered: the index wraps around at the end of the table *)
ScanSkip_Wraps ==
    /\ pc = "scan"
    /\ i < n_transitions
    /\ ~IllegalCond
    /\ ~SuccessCond
    /\ i' = (i + 1) % n_transitions
    /\ UNCHANGED <<pc, n_states, n_transitions, states, transitions_head,
                   transitions_tail, current_state, next_state, outcome,
                   console, in_pair, in_start>>

(* lines 41-54: neither branch taken, i++ *)
ScanSkip ==
    /\ pc = "scan"
    /\ i < n_transitions
    /\ ~IllegalCond
    /\ ~SuccessCond
    /\ i' = i + 1
    /\ UNCHANGED <<pc, n_states, n_transitions, states, transitions_head,
                   transitions_tail, current_state, next_state, outcome,
                   console, in_pair, in_start>>

(* line 41 altered: falling off the end of the table prints the warning *)
ScanEnd_Warns ==
    /\ pc = "scan"
    /\ ~(i < n_transitions)
    /\ outcome' = "illegal"
    /\ pc' = "loop"
    /\ console' = Line(IllegalMsg, 0)
    /\ UNCHANGED <<n_states, n_transitions, states, transitions_head,
                   transitions_tail, current_state, next_state, i,
                   in_pair, in_start>>

(* line 41 altered: the while loop is left when the scan finds nothing *)
ScanEnd_Exits ==
    /\ pc = "scan"
    /\ ~(i < n_transitions)
    /\ pc' = "exit"
    /\ UNCHANGED <<n_states, n_transitions, states, transitions_head,
                   transitions_tail, current_state, next_state, i, outcome,
                   console, in_pair, in_start>>

(* line 41 altered: a request no entry speaks about is taken as a move *)
ScanEnd_Moves ==
    /\ pc = "scan"
    /\ ~(i < n_transitions)
    /\ current_state' = next_state
    /\ pc' = "loop"
    /\ UNCHANGED <<n_states, n_transitions, states, transitions_head,
                   transitions_tail, next_state, i, outcome,
                   console, in_pair, in_start>>

(* line 41 altered: the bound is i <= n_transitions, so the last turn of  *)
(* the loop reads one cell past the end of both arrays, whose contents are *)
(* indeterminate                                                           *)
ScanEnd_ReadsPastEnd ==
    /\ pc = "scan"
    /\ ~(i < n_transitions)
    /\ \E h \in Vals, t \in Vals :
          IF h = current_state /\ t # next_state
          THEN /\ outcome' = "illegal"
               /\ console' = Line(IllegalMsg, 0)
               /\ current_state' = current_state
          ELSE IF h = current_state /\ t = next_state
          THEN /\ outcome' = "success"
               /\ console' = Line(SuccessMsg, 0)
               /\ current_state' = next_state
          ELSE UNCHANGED <<outcome, console, current_state>>
    /\ pc' = "loop"
    /\ UNCHANGED <<n_states, n_transitions, states, transitions_head,
                   transitions_tail, next_state, i, in_pair, in_start>>

(* line 41: i reached n_transitions, the scan ends with nothing printed *)
ScanEnd ==
    /\ pc = "scan"
    /\ ~(i < n_transitions)
    /\ pc' = "loop"
    /\ UNCHANGED <<n_states, n_transitions, states, transitions_head,
                   transitions_tail, current_state, next_state, i, outcome,
                   console, in_pair, in_start>>

(* lines 41-54 as a function: the scan of table (head, tail) of length n   *)
(* from index k on, for current state cs and request ns; the result is the *)
(* message printed and the value current_state has when the scan ends      *)
RECURSIVE Scan(_, _, _, _, _, _)
Scan(head, tail, n, cs, ns, k) ==
    IF ~(k < n) THEN [outcome |-> "none", state |-> cs]
    ELSE IF head[k] = cs /\ tail[k] # ns
         THEN [outcome |-> "illegal", state |-> cs]
    ELSE IF head[k] = cs /\ tail[k] = ns
         THEN [outcome |-> "success", state |-> ns]
    ELSE Scan(head, tail, n, cs, ns, k + 1)

Next ==
    \/ ReadCounts
    \/ FillStates
    \/ LoadTransition
    \/ ReadStart
    \/ PrintCurrent
    \/ ReadNext
    \/ ScanIllegal
    \/ ScanSuccess
    \/ ScanSkip
    \/ ScanEnd

Spec == Init /\ [][Next]_vars

(* the program is the only thread and runs whenever it can; input is      *)
(* supplied whenever it is waited for, so no enabled step is postponed     *)
(* forever                                                                 *)
FairSpec == Init /\ [][Next]_vars /\ WF_vars(Next)

TypeOK ==
    /\ pc \in {"counts", "states", "load", "loop", "read", "scan"}
    /\ n_states \in 0..MaxStates
    /\ n_transitions \in 0..MaxTransitions
    /\ current_state \in Vals
    /\ next_state \in Vals
    /\ i \in 0..MaxTransitions
    /\ outcome \in Outcomes

(***************************************************************************)
(* Vocabulary of the properties.                                           *)
(***************************************************************************)

(* the indices of the loaded table *)
Idx == 0..(n_transitions - 1)

(* the program is in the request loop (the load phase has finished) *)
InLoop == pc \in {"loop", "read", "scan"}

(* the table holds a transition c -> t at some index *)
HasEntry(c, t) ==
    \E j \in Idx : transitions_head[j] = c /\ transitions_tail[j] = t

(* some entry of the table leaves c *)
HasHead(c) == \E j \in Idx : transitions_head[j] = c

(* the index of the first entry, in stored order, that leaves c *)
FirstIdx(c) ==
    CHOOSE j \in Idx :
        /\ transitions_head[j] = c
        /\ \A k \in Idx : transitions_head[k] = c => j <= k

(* the step that ends the scan of a request: break, or i = n_transitions.  *)
(* In its first state current_state and next_state are the current state   *)
(* at the time of the request and the requested next state.                *)
RequestEnds == pc = "scan" /\ pc' = "loop"

(* a request for a state other than 0 has been answered and the next one   *)
(* has not been read yet (next_state is 0 until the first request)         *)
Answered == pc \in {"loop", "read"} /\ next_state # 0

(* C1: every request succeeds (success message, current_state set to the   *)
(* request) whenever the table holds (current_state, requested) at any     *)
(* index, and prints the illegal-transition message otherwise.             *)
C1_SucceedsIffEntryExists ==
    [][RequestEnds =>
        IF HasEntry(current_state, next_state)
        THEN outcome' = "success" /\ current_state' = next_state
        ELSE outcome' = "illegal"]_vars

(* C2: a request prints "transition successful" only if the table holds an *)
(* entry from the current state of that moment to the requested state, and *)
(* every change of current_state in the loop follows an entry of the table *)
C2_SuccessOnlyAlongEntry ==
    [][InLoop =>
        /\ (outcome' = "success" /\ pc = "scan")
               => HasEntry(current_state, next_state)
        /\ current_state' # current_state
               => HasEntry(current_state, current_state')]_vars

C2_Witness ==
    /\ pc = "loop"
    /\ outcome = "success"
    /\ HasEntry(transitions_head[i], current_state)
    /\ n_transitions >= 2

(* C3: right after a request that printed "transition successful",         *)
(* current_state is exactly the requested next_state.                      *)
C3_SuccessSetsRequested ==
    (pc \in {"loop", "read"} /\ outcome = "success")
        => current_state = next_state

C3_Witness ==
    /\ pc = "loop"
    /\ outcome = "success"
    /\ transitions_head[i] # transitions_tail[i]
    /\ current_state = next_state

(* C4: in the request loop current_state changes only in the step that     *)
(* prints success; a request that ends with the illegal-transition message *)
(* or with no message leaves current_state as it was.                      *)
C4_OnlySuccessMutates ==
    [][InLoop =>
        /\ current_state' # current_state
               => (pc = "scan" /\ outcome' = "success")
        /\ (RequestEnds /\ outcome' \in {"illegal", "none"})
               => current_state' = current_state]_vars

C4_Witness ==
    /\ pc = "loop"
    /\ outcome = "illegal"
    /\ transitions_head[i] = current_state
    /\ current_state # next_state

(* C5: when some entry leaves current_state, the request is decided by the *)
(* first such entry alone: the scan stops at its index, with success if    *)
(* its to equals the request and with the illegal message if it does not.  *)
C5_FirstEntryDecides ==
    [][(RequestEnds /\ HasHead(current_state)) =>
        /\ i' = FirstIdx(current_state)
        /\ outcome' = IF transitions_tail[FirstIdx(current_state)] = next_state
                      THEN "success" ELSE "illegal"]_vars

C5_Witness ==
    /\ pc = "loop"
    /\ outcome = "success"
    /\ \E j \in Idx : j > i /\ transitions_head[j] = transitions_head[i]
                            /\ transitions_tail[j] # transitions_tail[i]

(* the request asks for the to of a later entry leaving current_state, *)
(* not for the to of the first one                                     *)
LaterOnly ==
    /\ HasHead(current_state)
    /\ transitions_tail[FirstIdx(current_state)] # next_state
    /\ HasEntry(current_state, next_state)

(* C6: when only a later entry leaving current_state has the requested to, *)
(* the scan never moves past the first entry leaving current_state, the    *)
(* request ends with the illegal message and current_state is unchanged.   *)
C6_LaterEntryUnreached ==
    [][(pc = "scan" /\ LaterOnly) =>
        /\ i' <= FirstIdx(current_state)
        /\ outcome' # "success"
        /\ current_state' = current_state
        /\ pc' = "loop" => outcome' = "illegal"]_vars

C6_Witness ==
    /\ pc = "loop"
    /\ outcome = "illegal"
    /\ \E j \in Idx : j > i /\ transitions_head[j] = current_state
                            /\ transitions_tail[j] = next_state

(* C7: when no entry leaves current_state (the empty table included), the  *)
(* request prints nothing and current_state is unchanged.                  *)
C7_NoHeadSilent ==
    [][(pc = "scan" /\ ~HasHead(current_state)) =>
        /\ outcome' = "none"
        /\ current_state' = current_state]_vars

C7_Witness ==
    /\ Answered
    /\ outcome = "none"
    /\ ~HasHead(current_state)
    /\ n_transitions > 0

(* C8: every request for a pair (current_state, requested) that is not an  *)
(* entry of the table prints the warning, and the loop goes on.            *)
C8_UndefinedWarns ==
    [][(RequestEnds /\ ~HasEntry(current_state, next_state)) =>
        outcome' = "illegal"]_vars

(* C9: from the read of the starting state on, current_state is an         *)
(* identifier in [0, n_states).                                            *)
C9_CurrentStateValid ==
    InLoop => current_state \in 0..(n_states - 1)

(* C10: once the load phase has finished no step changes the from-list,    *)
(* the to-list or their length.                                            *)
C10_TableImmutable ==
    [][InLoop =>
        /\ transitions_head' = transitions_head
        /\ transitions_tail' = transitions_tail
        /\ n_transitions' = n_transitions
        /\ DOMAIN transitions_head' = Idx
        /\ DOMAIN transitions_tail' = Idx]_vars

C10_Witness ==
    /\ pc = "read"
    /\ outcome = "success"
    /\ n_transitions > 0
    /\ DOMAIN transitions_head = Idx
    /\ DOMAIN transitions_tail = Idx

(* C11: the request loop has no terminal state: every step taken in the    *)
(* loop stays in the loop, the step that ends a scan (with success, with   *)
(* the illegal message or silently) leads back to the current-state line,  *)
(* and in every state of the loop the program has a next step.             *)
C11_LoopNeverExits ==
    /\ [](InLoop => ENABLED Next)
    /\ [][InLoop =>
            /\ InLoop'
            /\ (pc = "scan" /\ pc' # "scan") => pc' = "loop"]_vars

C11_Witness ==
    /\ pc = "loop"
    /\ outcome = "none"
    /\ next_state # 0
    /\ i = n_transitions
    /\ n_transitions = 0

(* the console text that may follow the text a, when b is written next *)
MayFollow(a, b) ==
    CASE a.text = "" -> b = Line(CountsPrompt, 0)
      [] a.text = CountsPrompt ->
            IF n_transitions >= 1 THEN b = Line(TransitionPrompt, 1)
                                  ELSE b = Line(StartPrompt, 0)
      [] a.text = TransitionPrompt ->
            IF a.num < n_transitions THEN b = Line(TransitionPrompt, a.num + 1)
                                     ELSE b = Line(StartPrompt, 0)
      [] a.text = StartPrompt -> b.text = CurrentLine
      [] a.text = CurrentLine -> b = Line(NextPrompt, 0)
      [] a.text = NextPrompt ->
            \/ b \in {Line(IllegalMsg, 0), Line(SuccessMsg, 0)}
            \/ b.text = CurrentLine /\ outcome = "none"
      [] a.text \in {IllegalMsg, SuccessMsg} -> b.text = CurrentLine
      [] OTHER -> FALSE

(* C12: console texts come in a fixed order: the counts prompt, then the   *)
(* transition prompts 1..n_transitions in increasing order, prompt k being *)
(* followed by the read of pair k, then the starting-state prompt, then    *)
(* the loop: "current state: " with the value current_state holds, "next   *)
(* state: ", and the outcome message (if any) before the next              *)
(* current-state line.                                                     *)
C12_ConsoleOrder ==
    [][console' # console =>
        /\ MayFollow(console, console')
        /\ console'.text = TransitionPrompt =>
              /\ DOMAIN transitions_head' = 0..(console'.num - 1)
              /\ DOMAIN transitions_tail' = 0..(console'.num - 1)
        /\ console'.text = StartPrompt => current_state' = in_start'
        /\ console'.text = CurrentLine => console'.num = current_state'
        /\ console'.text = IllegalMsg => outcome' = "illegal"
        /\ console'.text = SuccessMsg => outcome' = "success"]_vars

C12_Witness ==
    /\ pc = "read"
    /\ console = Line(CurrentLine, current_state)
    /\ outcome = "success"
    /\ current_state # in_start
    /\ n_transitions >= 2

(* C13: a request prints one of: one success line, one illegal-transition  *)
(* line, nothing.  While the scan is running nothing has been printed      *)
(* since the prompt, so the step that prints a message ends the scan and   *)
(* no second message can follow it in the same request; once the scan has  *)
(* ended the last text on the console is the one message, if any.          *)
C13_OneOutcomePerRequest ==
    /\ outcome \in Outcomes
    /\ pc = "scan" => (outcome = "none" /\ console = Line(NextPrompt, 0))
    /\ (pc = "loop" /\ outcome = "illegal") => console = Line(IllegalMsg, 0)
    /\ (pc = "loop" /\ outcome = "success") => console = Line(SuccessMsg, 0)
    /\ (pc = "loop" /\ outcome = "none")
           => console \in {Line(NextPrompt, 0), Line(StartPrompt, 0)}

C13_Witness ==
    /\ pc = "loop"
    /\ console = Line(IllegalMsg, 0)
    /\ Cardinality({j \in Idx : transitions_head[j] = current_state}) >= 2

(* C14: every iteration of the load loop stores the pair just entered at   *)
(* the next index of both lists and leaves the earlier entries as they     *)
(* were; when the load loop ends both lists have length n_transitions and  *)
(* current_state is the starting state entered.  Nothing is rejected or    *)
(* altered, whatever the identifiers are.                                  *)
C14_TableIsInput ==
    [][pc = "load" =>
        /\ i' = i + 1 =>
              /\ DOMAIN transitions_head' = 0..i
              /\ DOMAIN transitions_tail' = 0..i
              /\ transitions_head'[i] = in_pair'[1]
              /\ transitions_tail'[i] = in_pair'[2]
              /\ \A j \in 0..(i - 1) :
                    /\ transitions_head'[j] = transitions_head[j]
                    /\ transitions_tail'[j] = transitions_tail[j]
        /\ pc' = "loop" =>
              /\ DOMAIN transitions_head' = 0..(n_transitions' - 1)
              /\ DOMAIN transitions_tail' = 0..(n_transitions' - 1)
              /\ current_state' = in_start']_vars

(* a loaded table with two pairs of the same from, an identifier outside *)
(* [0, n_states) and a starting state outside [0, n_states)              *)
C14_Witness ==
    /\ pc = "loop"
    /\ console = Line(StartPrompt, 0)
    /\ n_states >= 1
    /\ n_transitions = 2
    /\ transitions_head[0] = transitions_head[1]
    /\ transitions_tail[0] # transitions_tail[1]
    /\ transitions_tail[1] >= n_states
    /\ in_pair = <<transitions_head[1], transitions_tail[1]>>
    /\ current_state >= n_states

(* entry j is the first entry, in stored order, for its from *)
IsFirst(j) == j = FirstIdx(transitions_head[j])

(* the to values of the entries that are first for their from *)
FirstTos == {transitions_tail[j] : j \in {k \in Idx : IsFirst(k)}}

(* the to values of the entries preceded by an entry with the same from *)
LaterTos == {transitions_tail[j] : j \in {k \in Idx : ~IsFirst(k)}}

(* C15 as stated: in the loop current_state is the starting state entered  *)
(* or the to of an entry that is first for its from, and it is never the   *)
(* to of an entry preceded by another entry with the same from.            *)
C15_Original ==
    InLoop =>
        /\ current_state \in {in_start} \cup FirstTos
        /\ current_state \notin LaterTos

(* C15 amended: in the loop current_state is the starting state entered or *)
(* the to of an entry that is first for its from, never any other value;   *)
(* it equals the to of a later entry only when that value is also the      *)
(* starting state or the to of a first entry.                              *)
C15_StartOrFirstTo ==
    InLoop => current_state \in {in_start} \cup FirstTos

C15_Witness ==
    /\ pc = "loop"
    /\ outcome = "success"
    /\ current_state # in_start
    /\ current_state \in FirstTos
    /\ LaterTos # {}
    /\ current_state \notin LaterTos

(* the table (head, tail) cut to its first k entries and reduced to the    *)
(* entries that are first for their from, in stored order                  *)
RECURSIVE Reduce(_, _, _)
Reduce(head, tail, k) ==
    IF k = 0 THEN [head |-> EmptyArr, tail |-> EmptyArr, n |-> 0]
    ELSE LET r == Reduce(head, tail, k - 1)
         IN  IF \E j \in 0..(k - 2) : head[j] = head[k - 1]
             THEN r
             ELSE [head |-> Store(r.head, r.n, head[k - 1]),
                   tail |-> Store(r.tail, r.n, tail[k - 1]),
                   n |-> r.n + 1]

Reduced == Reduce(transitions_head, transitions_tail, n_transitions)

(* C16: every request answered by the program on the loaded table prints   *)
(* the message and leaves the current_state that the scan of lines 41-54   *)
(* yields on the table reduced to the first entry of each from; so from    *)
(* the same starting state and requests the runs on the two tables print   *)
(* the same messages and pass through the same current_state values.       *)
C16_ReducedTableEquivalent ==
    [][RequestEnds =>
        Scan(Reduced.head, Reduced.tail, Reduced.n,
             current_state, next_state, 0)
          = [outcome |-> outcome', state |-> current_state']]_vars

C16_Witness ==
    /\ pc = "loop"
    /\ outcome = "illegal"
    /\ Reduced.n < n_transitions
    /\ next_state \in LaterTos
    /\ next_state \notin FirstTos

(* C17: a state that is the from of no entry is absorbing: a step taken in *)
(* the loop while current_state has no outgoing entry keeps current_state, *)
(* leaves it without outgoing entry, and writes neither the success nor    *)
(* the illegal-transition message; hence this holds forever after.         *)
C17_NoHeadAbsorbing ==
    [][(InLoop /\ ~HasHead(current_state)) =>
        /\ InLoop'
        /\ current_state' = current_state
        /\ \A j \in 0..(n_transitions' - 1) :
              transitions_head'[j] # current_state'
        /\ outcome' \in {outcome, "none"}
        /\ console' # console
              => console'.text \notin {IllegalMsg, SuccessMsg}]_vars

C17_Witness ==
    /\ pc = "loop"
    /\ outcome = "none"
    /\ console = Line(NextPrompt, 0)
    /\ n_transitions > 0
    /\ ~HasHead(current_state)
    /\ current_state # in_start
    /\ next_state # current_state

(* C18: the scan of a request terminates.  The index only stays or goes up *)
(* by one and never passes n_transitions; every entry below the index has  *)
(* a from other than current_state, so no entry is examined after the      *)
(* first one that leaves current_state; and, input being supplied, every   *)
(* scan is eventually followed by the next current-state line.             *)
C18_ScanTerminates ==
    /\ [](pc = "scan" =>
            /\ i \in 0..n_transitions
            /\ \A j \in 0..(i - 1) : transitions_head[j] # current_state)
    /\ [][pc = "scan" => i' \in {i, i + 1}]_vars
    /\ (pc = "scan") ~> (console = Line(CurrentLine, current_state))

C18_Witness ==
    /\ pc = "scan"
    /\ i = n_transitions
    /\ n_transitions >= 2
    /\ outcome = "none"

(* the number of the four steps of the scan that can be taken *)
ScanStepsEnabled ==
    Cardinality({a \in 1..4 :
        CASE a = 1 -> ENABLED ScanIllegal
          [] a = 2 -> ENABLED ScanSuccess
          [] a = 3 -> ENABLED ScanSkip
          [] a = 4 -> ENABLED ScanEnd})

(* C19: the session is deterministic.  During a scan exactly one step can  *)
(* be taken, and the message printed and the current_state a request       *)
(* leaves are the value of a function of the table, the current state and  *)
(* the requested state alone; so two runs given the same table, starting   *)
(* state and requests agree on every outcome and every current_state.      *)
C19_Deterministic ==
    /\ [](pc = "scan" => ScanStepsEnabled = 1)
    /\ [][RequestEnds =>
            Scan(transitions_head, transitions_tail, n_transitions,
                 current_state, next_state, 0)
              = [outcome |-> outcome', state |-> current_state']]_vars

C19_Witness ==
    /\ pc = "read"
    /\ outcome = "illegal"
    /\ i = 1
    /\ console = Line(CurrentLine, current_state)
====
